---- MODULE Spec2Model ----
(***************************************************************************)
(* get-image-glsl: state machine of main() in src/main.cpp.                *)
(*                                                                         *)
(* The program is one sequential flow: parameter parsing, shader loading,  *)
(* context creation, openglInit (compile, link, dump, attribute lookup,    *)
(* vertex upload, uniform binding, viewport), then the render loop with    *)
(* its single capture.  pc is the position of that flow; calls is the log  *)
(* of the backend / file operations the flow has issued so far.            *)
(***************************************************************************)
EXTENDS Integers, Sequences, FiniteSets, TLC

VARIABLES
    pc,             \* position of the control flow of main()
    term,           \* "running", "exited" (exit(code)) or "aborted" (std::terminate)
    exitCode,       \* {} while running or aborted, {code} once exit(code) was called
    err,            \* which fatal message ended the run ("none" if none)
    params,         \* Params: exitCompile, exitLinking, persist, delay, binOut, API, APIVersion
    jsonKind,       \* the description file on disk: "absent", "malformed" or "wellformed"
    calls,          \* log of backend and file operations issued, in order
    nbUniforms,     \* GL_ACTIVE_UNIFORMS as read by setUniformsJSON
    activeUniforms, \* reflected names of the active uniforms (glGetActiveUniform)
    jsonContent,    \* key/value pairs of the description file as read
    j,              \* setUniformsJSON's json object j: name -> entry
    i,              \* setUniformsJSON's loop index (1-based)
    numFrames,      \* main's frame counter
    saved,          \* main's saved flag
    captureFrames,  \* values of numFrames at which savePNG wrote the image
    unitCall        \* a helper function run on its own: [fn, arg, res]; fn = "none" in main()

vars == <<pc, term, exitCode, err, params, jsonKind, calls, nbUniforms,
          activeUniforms, jsonContent, j, i, numFrames, saved, captureFrames, unitCall>>

(***************************************************************************)
(* Bounds of the model.                                                    *)
(***************************************************************************)
MaxDelay == 2
MaxFrames == 3
MaxUniforms == 2
MaxEntries == 2

(***************************************************************************)
(* Program constants.                                                      *)
(***************************************************************************)
COMPILE_ERROR_EXIT_CODE == 101
LINK_ERROR_EXIT_CODE == 102
EXIT_SUCCESS == 0
EXIT_FAILURE == 1

\* what contextInitAndGetAPI may report: <<API, APIVersion>>
NegotiatedAPIs ==
    {<<"API_OPENGL", 300>>, <<"API_OPENGL", 410>>,
     <<"API_OPENGL_ES", 200>>, <<"API_OPENGL_ES", 300>>}

(***************************************************************************)
(* Uniform names.  A name is the sequence of its lexical pieces, so that   *)
(* the array suffix of a reflected name ("foo[0]") is something strchr can *)
(* find and cut.                                                           *)
(***************************************************************************)
NameFoo == <<"foo">>
NameFooArr == <<"foo", "[", "0", "]">>
NameResolution == <<"resolution">>

\* names glGetActiveUniform may report
ReflectedNames == {NameFooArr, NameResolution}
\* keys a description file may hold
FileKeys == {NameFoo, NameFooArr}

\* entries a description file may hold for a key
EntryScalar == [func |-> "glUniform1f", args |-> <<1>>]
EntryUnknownFunc == [func |-> "glUniformMatrix2fv", args |-> <<1>>]
EntryNoFunc == [args |-> <<1>>]
EntryNoArgs == [func |-> "glUniform1f"]
EntryShortArgs == [func |-> "glUniform2f", args |-> <<1>>]
FileEntries == {EntryScalar, EntryUnknownFunc, EntryNoFunc, EntryNoArgs, EntryShortArgs}

SeqsUpTo(S, n) == UNION {[1..k -> S] : k \in 0..n}

UniformLists == SeqsUpTo(ReflectedNames, MaxUniforms)
\* the key/entry pairs of a file: a key with an array suffix is never looked
\* up (the reflected name is stripped, the keys are not), so one entry for it
\* is enough
FilePairs == ({NameFoo} \X FileEntries) \cup ((FileKeys \ {NameFoo}) \X {EntryScalar})
FileContents == SeqsUpTo(FilePairs, MaxEntries)

(***************************************************************************)
(* Termination: exit(code), crash(...) = exit(EXIT_FAILURE),               *)
(* errcode_crash(code, ...) = exit(code), and an uncaught C++ exception    *)
(* (std::terminate -> abort: the process dies on SIGABRT, no exit code).   *)
(***************************************************************************)
exit(code, e) ==
    /\ term' = "exited"
    /\ exitCode' = {code}
    /\ err' = e
    /\ pc' = "done"

crash(e) == exit(EXIT_FAILURE, e)

errcode_crash(code, e) == exit(code, e)

uncaught_exception(e) ==
    /\ term' = "aborted"
    /\ exitCode' = {}
    /\ err' = e
    /\ pc' = "done"

goto(l) ==
    /\ pc' = l
    /\ UNCHANGED <<term, exitCode, err>>

issue(ops) == calls' = calls \o ops

\* what glGetShaderiv(GL_COMPILE_STATUS) / glGetProgramiv(GL_LINK_STATUS) reported
GetStatus(stage, status) ==
    IF stage = "fragment" THEN (IF status THEN "fragment:COMPILE_STATUS=1" ELSE "fragment:COMPILE_STATUS=0")
    ELSE IF stage = "vertex" THEN (IF status THEN "vertex:COMPILE_STATUS=1" ELSE "vertex:COMPILE_STATUS=0")
    ELSE (IF status THEN "LINK_STATUS=1" ELSE "LINK_STATUS=0")

(***************************************************************************)
(* Init: the state after setParams (defaults overridden by the command     *)
(* line).  API is not yet negotiated; APIVersion is 0.                     *)
(***************************************************************************)
ParamSets ==
    [exitCompile : BOOLEAN, exitLinking : BOOLEAN, persist : BOOLEAN,
     delay : 0..MaxDelay, binOut : {"", "prog.bin"},
     width : {256}, height : {256},
     API : {"unset"}, APIVersion : {0}]

Init ==
    /\ pc = "readFile"
    /\ term = "running"
    /\ exitCode = {}
    /\ err = "none"
    /\ params \in ParamSets
    /\ jsonKind \in {"absent", "malformed", "wellformed"}
    /\ calls = <<>>
    /\ nbUniforms = 0
    /\ activeUniforms = <<>>
    /\ jsonContent = <<>>
    /\ j = <<>>
    /\ i = 0
    /\ numFrames = 0
    /\ saved = FALSE
    /\ captureFrames = {}
    /\ unitCall = [fn |-> "none"]

binderLocals == <<nbUniforms, activeUniforms, jsonContent, j, i>>
loopLocals == <<numFrames, saved, captureFrames>>

(***************************************************************************)
(* main: readFile(fragContents) and getShaderVersion.                      *)
(***************************************************************************)
LoadShader ==
    /\ pc = "readFile"
    /\ \E outcome \in {"ok", "file_not_found", "bad_version"} :
          IF outcome = "ok" THEN goto("contextInit") ELSE crash(outcome)
    /\ UNCHANGED <<params, jsonKind, unitCall, calls, binderLocals, loopLocals>>

(***************************************************************************)
(* contextInitAndGetAPI: the context layer reports the API and version.    *)
(***************************************************************************)
contextInitAndGetAPI ==
    /\ pc = "contextInit"
    /\ \E api \in NegotiatedAPIs :
          params' = [params EXCEPT !.API = api[1], !.APIVersion = api[2]]
    /\ goto("fragCompile")
    /\ UNCHANGED <<jsonKind, unitCall, calls, binderLocals, loopLocals>>

(***************************************************************************)
(* A backend call checked by GL_SAFECALL / GL_CHECKERR reports an error:   *)
(* the run crashes.                                                        *)
(***************************************************************************)
\* variant: the ES branch of the gate forgets the version
supported_AnyES(p) ==
    \/ (p.API = "API_OPENGL" /\ p.APIVersion >= 410)
    \/ (p.API = "API_OPENGL_ES")

supported(p) ==
    \/ (p.API = "API_OPENGL" /\ p.APIVersion >= 410)
    \/ (p.API = "API_OPENGL_ES" /\ p.APIVersion >= 300)

CheckedPcs ==
    {"fragCompile", "vertCompile", "link", "attrib", "vertexData", "useProgram",
     "uniforms", "bind", "viewport", "render"}

GLError ==
    /\ \/ pc \in CheckedPcs
       \/ pc = "dump" /\ params.binOut # "" /\ supported(params)
    /\ crash("gl_error")
    /\ UNCHANGED <<params, jsonKind, unitCall, calls, binderLocals, loopLocals>>

(***************************************************************************)
(* openglInit, fragment stage (lines 503-516).                             *)
(***************************************************************************)
\* variant: --exit-compile is not honoured
FragCompileStep_NoExitCompile(status) ==
    /\ issue(<<"compileFragment", GetStatus("fragment", status)>>)
    /\ IF ~status THEN errcode_crash(COMPILE_ERROR_EXIT_CODE, "frag_compile")
       ELSE goto("vertCompile")

FragCompileStep(status) ==
    /\ issue(<<"compileFragment", GetStatus("fragment", status)>>)
    /\ IF ~status THEN errcode_crash(COMPILE_ERROR_EXIT_CODE, "frag_compile")
       ELSE IF params.exitCompile THEN exit(EXIT_SUCCESS, "none")
       ELSE goto("vertCompile")

FragCompile ==
    /\ pc = "fragCompile"
    /\ \E status \in BOOLEAN : FragCompileStep(status)
    /\ UNCHANGED <<params, jsonKind, unitCall, binderLocals, loopLocals>>

(***************************************************************************)
(* openglInit, vertex stage (lines 518-529).                               *)
(***************************************************************************)
\* variant: a vertex compile failure leaves with the link-error code
VertCompileStep_LinkCode(status) ==
    /\ issue(<<"compileVertex", GetStatus("vertex", status)>>)
    /\ IF ~status THEN errcode_crash(LINK_ERROR_EXIT_CODE, "vert_compile")
       ELSE goto("link")

VertCompileStep(status) ==
    /\ issue(<<"compileVertex", GetStatus("vertex", status)>>)
    /\ IF ~status THEN errcode_crash(COMPILE_ERROR_EXIT_CODE, "vert_compile")
       ELSE goto("link")

VertCompile ==
    /\ pc = "vertCompile"
    /\ \E status \in BOOLEAN : VertCompileStep(status)
    /\ UNCHANGED <<params, jsonKind, unitCall, binderLocals, loopLocals>>

(***************************************************************************)
(* openglInit, program creation and link (lines 531-548).                  *)
(***************************************************************************)
\* variant: GL_LINK_STATUS is read but not tested
LinkStep_NoStatusCheck(program, status) ==
    IF program = 0
    THEN /\ issue(<<"glCreateProgram">>
                  \o (IF supported(params) THEN <<"binaryRetrievableHint">> ELSE <<>>))
         /\ crash("create_program")
    ELSE /\ issue(<<"glCreateProgram">>
                  \o (IF supported(params) THEN <<"binaryRetrievableHint">> ELSE <<>>)
                  \o <<"linkProgram", GetStatus("link", status)>>)
         /\ goto("dump")

LinkStep(program, status) ==
    IF program = 0
    THEN /\ issue(<<"glCreateProgram">>
                  \o (IF supported(params) THEN <<"binaryRetrievableHint">> ELSE <<>>))
         /\ crash("create_program")
    ELSE /\ issue(<<"glCreateProgram">>
                  \o (IF supported(params) THEN <<"binaryRetrievableHint">> ELSE <<>>)
                  \o <<"linkProgram", GetStatus("link", status)>>)
         /\ IF ~status THEN errcode_crash(LINK_ERROR_EXIT_CODE, "link")
            ELSE goto("dump")

Link ==
    /\ pc = "link"
    /\ \E program \in {0, 1}, status \in BOOLEAN : LinkStep(program, status)
    /\ UNCHANGED <<params, jsonKind, unitCall, binderLocals, loopLocals>>

(***************************************************************************)
(* dumpBin (lines 437-467), called from openglInit lines 550-552.          *)
(***************************************************************************)
dumpBin(num_formats, mallocOK) ==
    IF ~supported(params)
    THEN issue(<<"dumpBin", "cannotDump">>) /\ goto("exitLinking")
    ELSE IF num_formats <= 0
    THEN issue(<<"dumpBin", "NUM_PROGRAM_BINARY_FORMATS=0", "cannotDump">>) /\ goto("exitLinking")
    ELSE IF ~mallocOK
    THEN issue(<<"dumpBin", "NUM_PROGRAM_BINARY_FORMATS>0">>) /\ crash("malloc")
    ELSE issue(<<"dumpBin", "NUM_PROGRAM_BINARY_FORMATS>0", "writeBinary">>) /\ goto("exitLinking")

DumpStep(num_formats, mallocOK) ==
    IF params.binOut # ""
    THEN dumpBin(num_formats, mallocOK)
    ELSE UNCHANGED calls /\ goto("exitLinking")

Dump ==
    /\ pc = "dump"
    /\ \E num_formats \in {0, 1}, mallocOK \in BOOLEAN : DumpStep(num_formats, mallocOK)
    /\ UNCHANGED <<params, jsonKind, unitCall, binderLocals, loopLocals>>

(***************************************************************************)
(* openglInit lines 554-556.                                               *)
(***************************************************************************)
\* variant: --exit-linking is not honoured
ExitLinkingStep_Never == goto("attrib")

ExitLinkingStep ==
    IF params.exitLinking THEN exit(EXIT_SUCCESS, "none") ELSE goto("attrib")

ExitLinking ==
    /\ pc = "exitLinking"
    /\ ExitLinkingStep
    /\ UNCHANGED <<params, jsonKind, unitCall, calls, binderLocals, loopLocals>>

(***************************************************************************)
(* openglInit lines 558-563: location of _GLF_vertexPosition.              *)
(***************************************************************************)
\* what glGetAttribLocation(program, "_GLF_vertexPosition") returned
GetAttrib(vertPosLocInt) ==
    IF vertPosLocInt = -1 THEN "_GLF_vertexPosition=-1" ELSE "_GLF_vertexPosition>=0"

\* variant: a missing attribute is not tested
AttribStep_IgnoresMissing(vertPosLocInt) ==
    /\ issue(<<"glGetAttribLocation", GetAttrib(vertPosLocInt)>>)
    /\ goto("vertexData")

AttribStep(vertPosLocInt) ==
    /\ issue(<<"glGetAttribLocation", GetAttrib(vertPosLocInt)>>)
    /\ IF vertPosLocInt = -1 THEN crash("no_vertex_position") ELSE goto("vertexData")

AttribLocation ==
    /\ pc = "attrib"
    /\ \E vertPosLocInt \in {-1, 0} : AttribStep(vertPosLocInt)
    /\ UNCHANGED <<params, jsonKind, unitCall, binderLocals, loopLocals>>

(***************************************************************************)
(* openglInit lines 565-580: the quad.                                     *)
(***************************************************************************)
VertexData ==
    /\ pc = "vertexData"
    /\ issue((IF params.API = "API_OPENGL_ES" \/ params.APIVersion >= 300
              THEN <<"glBindVertexArray">> ELSE <<>>) \o <<"glBufferData">>)
    /\ goto("useProgram")
    /\ UNCHANGED <<params, jsonKind, unitCall, binderLocals, loopLocals>>

(***************************************************************************)
(* openglInit line 582.                                                    *)
(***************************************************************************)
UseProgram ==
    /\ pc = "useProgram"
    /\ issue(<<"glUseProgram">>)
    /\ goto("uniforms")
    /\ UNCHANGED <<params, jsonKind, unitCall, binderLocals, loopLocals>>

(***************************************************************************)
(* JSON helpers.                                                           *)
(***************************************************************************)
\* json::parse of an object: an object is a map, a repeated key keeps its
\* last value.
JsonParse(content) ==
    LET keys == {content[n][1] : n \in DOMAIN content}
        last(k) == CHOOSE n \in DOMAIN content :
                      /\ content[n][1] = k
                      /\ \A m \in DOMAIN content : content[m][1] = k => m <= n
    IN  [k \in keys |-> content[last(k)][2]]

\* json::count(key)
JsonCount(obj, key) == IF key \in DOMAIN obj THEN 1 ELSE 0

\* j[key] = value
JsonSet(obj, key, value) ==
    [k \in DOMAIN obj \cup {key} |-> IF k = key THEN value ELSE obj[k]]

\* setJSONDefaultEntries (lines 241-267)
JSONDefaults(p) ==
    << <<(<<"injectionSwitch">>), [func |-> "glUniform2f", args |-> <<0, 1>>]>>,
       <<(<<"mouse">>), [func |-> "glUniform2f", args |-> <<0, 0>>]>>,
       <<NameResolution, [func |-> "glUniform2f", args |-> <<p.width, p.height>>]>>,
       <<(<<"time">>), [func |-> "glUniform1f", args |-> <<0>>]>> >>

RECURSIVE AddDefaults(_, _, _)
AddDefaults(obj, defaults, n) ==
    IF n > Len(defaults) THEN obj
    ELSE AddDefaults(IF JsonCount(obj, defaults[n][1]) = 0
                     THEN JsonSet(obj, defaults[n][1], defaults[n][2])
                     ELSE obj,
                     defaults, n + 1)

setJSONDefaultEntries(obj, p) == AddDefaults(obj, JSONDefaults(p), 1)

\* lines 320-324: strchr(uniformName, '[') and truncation
StripSubscript(name) ==
    IF \E k \in DOMAIN name : name[k] = "["
    THEN LET p == CHOOSE k \in DOMAIN name :
                     /\ name[k] = "["
                     /\ \A m \in DOMAIN name : name[m] = "[" => k <= m
         IN  SubSeq(name, 1, p - 1)
    ELSE name

(***************************************************************************)
(* The setters setUniformsJSON dispatches to (lines 355-408).              *)
(***************************************************************************)
GL_VERSION_ES_CM_1_0 == FALSE

ScalarSetters ==
    {"glUniform1f", "glUniform2f", "glUniform3f", "glUniform4f",
     "glUniform1i", "glUniform2i", "glUniform3i", "glUniform4i"}
    \cup (IF GL_VERSION_ES_CM_1_0 THEN {}
          ELSE {"glUniform1ui", "glUniform2ui", "glUniform3ui", "glUniform4ui"})

ArraySetters ==
    {"glUniform1fv", "glUniform2fv", "glUniform3fv", "glUniform4fv",
     "glUniform1iv", "glUniform2iv", "glUniform3iv", "glUniform4iv"}

\* number of args[...] a scalar setter reads
SetterArity(func) ==
    IF func \in {"glUniform1f", "glUniform1i", "glUniform1ui"} THEN 1
    ELSE IF func \in {"glUniform2f", "glUniform2i", "glUniform2ui"} THEN 2
    ELSE IF func \in {"glUniform3f", "glUniform3i", "glUniform3ui"} THEN 3
    ELSE 4

(***************************************************************************)
(* setUniformsJSON, lines 289-295: the active-uniform count.               *)
(***************************************************************************)
\* variant: no early return for a program without uniforms
QueryUniformsStep_NoShortCircuit(us) ==
    /\ issue(<<"glGetProgramiv">>)
    /\ nbUniforms' = Len(us)
    /\ activeUniforms' = us
    /\ goto("resolve")

QueryUniformsStep(us) ==
    /\ issue(<<"glGetProgramiv">>)
    /\ nbUniforms' = Len(us)
    /\ activeUniforms' = us
    /\ IF Len(us) = 0 THEN goto("viewport") ELSE goto("resolve")

QueryUniforms ==
    /\ pc = "uniforms"
    /\ \E us \in UniformLists : QueryUniformsStep(us)
    /\ UNCHANGED <<params, jsonKind, unitCall, jsonContent, j, i, loopLocals>>

(***************************************************************************)
(* setUniformsJSON, lines 297-309: the description.                        *)
(***************************************************************************)
\* variant: the defaults are added to the description of an existing file too
ResolveStep_AlwaysDefaults(content) ==
    IF jsonKind # "absent"
    THEN IF jsonKind = "malformed"
         THEN /\ issue(<<"isFile", "readFile", "json::parse">>)
              /\ uncaught_exception("parse_error")
              /\ UNCHANGED <<jsonContent, j, i>>
         ELSE /\ issue(<<"isFile", "readFile", "json::parse">>)
              /\ jsonContent' = content
              /\ j' = setJSONDefaultEntries(JsonParse(content), params)
              /\ i' = 1
              /\ goto("bind")
    ELSE /\ issue(<<"isFile", "setJSONDefaultEntries">>)
         /\ jsonContent' = <<>>
         /\ j' = setJSONDefaultEntries(<<>>, params)
         /\ i' = 1
         /\ goto("bind")

ResolveStep(content) ==
    IF jsonKind # "absent"
    THEN IF jsonKind = "malformed"
         THEN /\ issue(<<"isFile", "readFile", "json::parse">>)
              /\ uncaught_exception("parse_error")
              /\ UNCHANGED <<jsonContent, j, i>>
         ELSE /\ issue(<<"isFile", "readFile", "json::parse">>)
              /\ jsonContent' = content
              /\ j' = JsonParse(content)
              /\ i' = 1
              /\ goto("bind")
    ELSE /\ issue(<<"isFile", "setJSONDefaultEntries">>)
         /\ jsonContent' = <<>>
         /\ j' = setJSONDefaultEntries(<<>>, params)
         /\ i' = 1
         /\ goto("bind")

ResolveDescription ==
    /\ pc = "resolve"
    /\ \E content \in (IF jsonKind = "wellformed" THEN FileContents ELSE {<<>>}) :
          ResolveStep(content)
    /\ UNCHANGED <<params, jsonKind, unitCall, nbUniforms, activeUniforms, loopLocals>>

(***************************************************************************)
(* setUniformsJSON, lines 317-414: one iteration of the loop.              *)
(***************************************************************************)
\* lines 334-413: the entry found, its checks and the dispatch
BindEntry(uniformInfo, uniformLocation) ==
    IF "func" \notin DOMAIN uniformInfo THEN UNCHANGED calls /\ crash("no_func")
    ELSE IF "args" \notin DOMAIN uniformInfo THEN UNCHANGED calls /\ crash("no_args")
    ELSE IF uniformLocation = -1
    THEN issue(<<"glGetUniformLocation">>) /\ crash("no_location")
    ELSE LET uniformFunc == uniformInfo.func
             args == uniformInfo.args IN
    IF uniformFunc \in ScalarSetters
    THEN IF Len(args) < SetterArity(uniformFunc)
         THEN issue(<<"glGetUniformLocation">>) /\ uncaught_exception("type_error")
         ELSE issue(<<"glGetUniformLocation", uniformFunc>>) /\ goto("bind")
    ELSE IF uniformFunc \in ArraySetters
    THEN issue(<<"glGetUniformLocation", uniformFunc>>) /\ goto("bind")
    ELSE issue(<<"glGetUniformLocation">>) /\ crash("unsupported_func")

\* variant: a uniform without an entry is skipped instead of being fatal
BindStep_SkipsMissing(uniformLocation) ==
    LET uniformName == StripSubscript(activeUniforms[i]) IN
    IF JsonCount(j, uniformName) = 0 THEN UNCHANGED calls /\ goto("bind")
    ELSE IF JsonCount(j, uniformName) > 1 THEN UNCHANGED calls /\ crash("duplicate_entry")
    ELSE BindEntry(j[uniformName], uniformLocation)

\* lines 317-332: the reflected name, sanitised, and the lookup
BindStep(uniformLocation) ==
    LET uniformName == StripSubscript(activeUniforms[i]) IN
    IF JsonCount(j, uniformName) = 0 THEN UNCHANGED calls /\ crash("missing_entry")
    ELSE IF JsonCount(j, uniformName) > 1 THEN UNCHANGED calls /\ crash("duplicate_entry")
    ELSE BindEntry(j[uniformName], uniformLocation)

BindUniform ==
    /\ pc = "bind"
    /\ i <= nbUniforms
    /\ \E uniformLocation \in {-1, 0} : BindStep(uniformLocation)
    /\ i' = IF pc' = "bind" THEN i + 1 ELSE i
    /\ UNCHANGED <<params, jsonKind, unitCall, nbUniforms, activeUniforms, jsonContent, j, loopLocals>>

\* variant: the loop stops one uniform early
UniformsDone_OffByOne ==
    /\ pc = "bind"
    /\ i >= nbUniforms
    /\ goto("viewport")
    /\ jsonContent' = <<>>
    /\ j' = <<>>
    /\ i' = 0
    /\ UNCHANGED <<params, jsonKind, unitCall, calls, nbUniforms, activeUniforms, loopLocals>>

\* line 416 and the return: the locals go out of scope
UniformsDone ==
    /\ pc = "bind"
    /\ i > nbUniforms
    /\ goto("viewport")
    /\ jsonContent' = <<>>
    /\ j' = <<>>
    /\ i' = 0
    /\ UNCHANGED <<params, jsonKind, unitCall, calls, nbUniforms, activeUniforms, loopLocals>>

(***************************************************************************)
(* openglInit line 585, then main lines 641-642.                           *)
(***************************************************************************)
Viewport ==
    /\ pc = "viewport"
    /\ issue(<<"glViewport">>)
    /\ goto("loop")
    /\ numFrames' = 0
    /\ saved' = FALSE
    /\ UNCHANGED <<params, jsonKind, unitCall, binderLocals, captureFrames>>

(***************************************************************************)
(* main, the render loop (lines 644-660).                                  *)
(***************************************************************************)
\* the context layer's predicate: the window may be closed at any time;
\* the model closes it at the latest after MaxFrames frames
contextKeepLooping ==
    /\ pc = "loop"
    /\ \E keep \in BOOLEAN :
          /\ keep => numFrames < MaxFrames
          /\ IF keep THEN goto("render") ELSE goto("terminate")
    /\ UNCHANGED <<params, jsonKind, unitCall, calls, binderLocals, loopLocals>>

\* openglRender (lines 590-597), contextSwap and numFrames++
openglRender ==
    /\ pc = "render"
    /\ issue(<<"glClear", "glDrawArrays", "glDrawArrays", "contextSwap">>)
    /\ numFrames' = numFrames + 1
    /\ goto("capture")
    /\ UNCHANGED <<params, jsonKind, unitCall, binderLocals, saved, captureFrames>>

\* the condition of line 649
CaptureDue == numFrames = params.delay /\ ~saved

\* variant: no break after the capture in non-persist mode
CaptureStep_NoBreak(png_error) ==
    IF CaptureDue
    THEN IF png_error
         THEN /\ issue(<<"glReadPixels">>)
              /\ crash("lodepng")
              /\ UNCHANGED <<saved, captureFrames>>
         ELSE /\ saved' = TRUE
              /\ captureFrames' = captureFrames \cup {numFrames}
              /\ IF params.persist
                 THEN /\ issue(<<"glReadPixels", "savePNG", "contextSetKeyCallback">>)
                      /\ goto("loop")
                 ELSE /\ issue(<<"glReadPixels", "savePNG">>)
                      /\ goto("loop")
    ELSE /\ UNCHANGED <<calls, saved, captureFrames>>
         /\ goto("loop")

\* variant: persist mode keeps looping without installing the key callback
CaptureStep_NoKeyCallback(png_error) ==
    IF CaptureDue
    THEN IF png_error
         THEN /\ issue(<<"glReadPixels">>)
              /\ crash("lodepng")
              /\ UNCHANGED <<saved, captureFrames>>
         ELSE /\ saved' = TRUE
              /\ captureFrames' = captureFrames \cup {numFrames}
              /\ issue(<<"glReadPixels", "savePNG">>)
              /\ IF params.persist THEN goto("loop") ELSE goto("terminate")
    ELSE /\ UNCHANGED <<calls, saved, captureFrames>>
         /\ goto("loop")

\* lines 649-659, with savePNG (lines 608-622)
CaptureStep(png_error) ==
    IF CaptureDue
    THEN IF png_error
         THEN /\ issue(<<"glReadPixels">>)
              /\ crash("lodepng")
              /\ UNCHANGED <<saved, captureFrames>>
         ELSE /\ saved' = TRUE
              /\ captureFrames' = captureFrames \cup {numFrames}
              /\ IF params.persist
                 THEN /\ issue(<<"glReadPixels", "savePNG", "contextSetKeyCallback">>)
                      /\ goto("loop")
                 ELSE /\ issue(<<"glReadPixels", "savePNG">>)
                      /\ goto("terminate")
    ELSE /\ UNCHANGED <<calls, saved, captureFrames>>
         /\ goto("loop")

Capture ==
    /\ pc = "capture"
    /\ \E png_error \in BOOLEAN : CaptureStep(png_error)
    /\ UNCHANGED <<params, jsonKind, unitCall, binderLocals, numFrames>>

\* lines 661-662
Terminate ==
    /\ pc = "terminate"
    /\ issue(<<"contextTerminate">>)
    /\ exit(EXIT_SUCCESS, "none")
    /\ UNCHANGED <<params, jsonKind, unitCall, binderLocals, loopLocals>>

Next ==
    \/ LoadShader
    \/ contextInitAndGetAPI
    \/ GLError
    \/ FragCompile
    \/ VertCompile
    \/ Link
    \/ Dump
    \/ ExitLinking
    \/ AttribLocation
    \/ VertexData
    \/ UseProgram
    \/ QueryUniforms
    \/ ResolveDescription
    \/ BindUniform
    \/ UniformsDone
    \/ Viewport
    \/ contextKeepLooping
    \/ openglRender
    \/ Capture
    \/ Terminate

Spec == Init /\ [][Next]_vars

(***************************************************************************)
(* Reading the log.                                                        *)
(***************************************************************************)
Count(op) == Cardinality({n \in DOMAIN calls : calls[n] = op})
Issued(op) == \E n \in DOMAIN calls : calls[n] = op

TypeOK ==
    /\ term \in {"running", "exited", "aborted"}
    /\ exitCode \subseteq {EXIT_SUCCESS, EXIT_FAILURE, COMPILE_ERROR_EXIT_CODE, LINK_ERROR_EXIT_CODE}
    /\ (term = "exited") <=> (Cardinality(exitCode) = 1)
    /\ numFrames \in 0..MaxFrames
    /\ i \in 0..(nbUniforms + 1)

(***************************************************************************)
(* Vocabulary of the properties.                                           *)
(***************************************************************************)
SetterOps == ScalarSetters \cup ArraySetters

\* what openglInit does after a successful link and the --exit-linking test
BindingOps ==
    {"glGetAttribLocation", "glBindVertexArray", "glBufferData", "glUseProgram",
     "glGetProgramiv", "isFile", "readFile", "json::parse", "setJSONDefaultEntries",
     "glGetUniformLocation", "glViewport"} \cup SetterOps

RenderOps ==
    {"glClear", "glDrawArrays", "contextSwap", "glReadPixels", "savePNG",
     "contextSetKeyCallback", "contextTerminate"}

LinkOps == {"glCreateProgram", "binaryRetrievableHint", "linkProgram",
            "LINK_STATUS=0", "LINK_STATUS=1"}

DumpOps == {"dumpBin", "NUM_PROGRAM_BINARY_FORMATS=0", "NUM_PROGRAM_BINARY_FORMATS>0",
            "cannotDump", "writeBinary"}

VertexOps == {"compileVertex", "vertex:COMPILE_STATUS=0", "vertex:COMPILE_STATUS=1"}

NoneIssued(ops) == \A n \in DOMAIN calls : calls[n] \notin ops

LastCall == IF calls = <<>> THEN "" ELSE calls[Len(calls)]

Position(op) == CHOOSE n \in DOMAIN calls : calls[n] = op

\* the binder holds a resolved description (between lines 309 and 416)
DescriptionResolved == i >= 1

HasEntry(k) == StripSubscript(activeUniforms[k]) \in DOMAIN j

\* the description file read holds two entries whose key, normalised, is
\* the name of active uniform k
DuplicateEntries(k) ==
    \E m, n \in DOMAIN jsonContent :
        /\ m # n
        /\ StripSubscript(jsonContent[m][1]) = StripSubscript(activeUniforms[k])
        /\ StripSubscript(jsonContent[n][1]) = StripSubscript(activeUniforms[k])

(***************************************************************************)
(* C1: whenever the fragment or the vertex compile reports failure, the    *)
(* process exits with code 101, and the failure report is the last thing   *)
(* the run did: no link, dump, binding, draw or capture follows.           *)
(***************************************************************************)
C1_CompileFailureExits101 ==
    (Issued("fragment:COMPILE_STATUS=0") \/ Issued("vertex:COMPILE_STATUS=0")) =>
        /\ term = "exited"
        /\ exitCode = {COMPILE_ERROR_EXIT_CODE}
        /\ LastCall \in {"fragment:COMPILE_STATUS=0", "vertex:COMPILE_STATUS=0"}
        /\ NoneIssued(LinkOps \cup DumpOps \cup BindingOps \cup RenderOps)

C1_Witness ==
    /\ Issued("fragment:COMPILE_STATUS=1")
    /\ Issued("vertex:COMPILE_STATUS=0")
    /\ exitCode = {COMPILE_ERROR_EXIT_CODE}

(***************************************************************************)
(* C2: whenever both shaders compiled and the link reports failure, the    *)
(* process exits with code 102 and the failure report is the last thing    *)
(* the run did: no dump, binding, draw or capture follows.                 *)
(***************************************************************************)
C2_LinkFailureExits102 ==
    Issued("LINK_STATUS=0") =>
        /\ Issued("fragment:COMPILE_STATUS=1")
        /\ Issued("vertex:COMPILE_STATUS=1")
        /\ term = "exited"
        /\ exitCode = {LINK_ERROR_EXIT_CODE}
        /\ LastCall = "LINK_STATUS=0"
        /\ NoneIssued(DumpOps \cup BindingOps \cup RenderOps)

C2_Witness ==
    /\ Issued("LINK_STATUS=0")
    /\ exitCode = {LINK_ERROR_EXIT_CODE}
    /\ params.binOut # ""

(***************************************************************************)
(* C3: with --exit-compile and a fragment shader that compiles, the        *)
(* process exits with code 0 right after the fragment compile, whatever    *)
(* the delay: the fragment compile and its status are all the run did.     *)
(***************************************************************************)
C3_ExitCompileStopsAfterFragment ==
    (params.exitCompile /\ Issued("fragment:COMPILE_STATUS=1")) =>
        /\ term = "exited"
        /\ exitCode = {EXIT_SUCCESS}
        /\ calls = <<"compileFragment", "fragment:COMPILE_STATUS=1">>
        /\ NoneIssued(VertexOps \cup LinkOps \cup DumpOps \cup BindingOps \cup RenderOps)

C3_Witness ==
    /\ params.exitCompile
    /\ params.delay = MaxDelay
    /\ Issued("fragment:COMPILE_STATUS=1")
    /\ exitCode = {EXIT_SUCCESS}

(***************************************************************************)
(* C4: with --exit-linking and a successful link the run never goes past   *)
(* the exit-after-linking test: it issues no attribute lookup, vertex      *)
(* upload, uniform binding or rendering, and when it reaches that test it  *)
(* exits with code 0; with a dump path configured, dumpBin has run by      *)
(* then, after the link reported success.                                  *)
(***************************************************************************)
C4_ExitLinkingStopsAfterLink ==
    (params.exitLinking /\ Issued("LINK_STATUS=1")) =>
        /\ pc \in {"dump", "exitLinking", "done"}
        /\ NoneIssued(BindingOps \cup RenderOps)
        /\ (pc = "done" => err \in {"none", "malloc", "gl_error"})
        /\ (pc = "done" /\ err = "none" => term = "exited" /\ exitCode = {EXIT_SUCCESS})
        /\ ((pc = "exitLinking" \/ (pc = "done" /\ err = "none")) /\ params.binOut # "" =>
                /\ Count("dumpBin") = 1
                /\ Position("LINK_STATUS=1") < Position("dumpBin"))
        /\ (params.binOut = "" => NoneIssued(DumpOps))

C4_Witness ==
    /\ params.exitLinking
    /\ params.binOut # ""
    /\ Issued("LINK_STATUS=1")
    /\ Issued("writeBinary")
    /\ exitCode = {EXIT_SUCCESS}

(***************************************************************************)
(* C5: capture happens at most once and only with the frame counter equal  *)
(* to the delay, and a run that entered the loop, rendered at least one    *)
(* frame and at least delay frames, and ended with code 0 has captured     *)
(* exactly once.                                                           *)
(***************************************************************************)
C5_CaptureExactlyOnceAtDelay ==
    /\ Count("savePNG") <= 1
    /\ captureFrames \subseteq {params.delay}
    /\ (/\ term = "exited"
        /\ exitCode = {EXIT_SUCCESS}
        /\ Issued("glViewport")
        /\ numFrames >= 1
        /\ numFrames >= params.delay)
       => (Count("savePNG") = 1 /\ captureFrames = {params.delay})

(***************************************************************************)
(* C6: with delay = 0 the first iteration of the render loop performs the  *)
(* capture: once the first frame's capture test is behind, savePNG has     *)
(* been called.                                                            *)
(***************************************************************************)
C6_DelayZeroCapturesFirstFrame ==
    (params.delay = 0 /\ numFrames >= 1 /\ pc \in {"loop", "render", "terminate"}) =>
        Issued("savePNG")

(***************************************************************************)
(* C7: when the program reports zero active uniforms, setUniformsJSON      *)
(* returns at once: the description file is not tested, read or parsed,    *)
(* no default is built, no setter is called and no description error or    *)
(* exception ends the run, whatever the state of the file.                 *)
(***************************************************************************)
DescriptionOps ==
    {"isFile", "readFile", "json::parse", "setJSONDefaultEntries", "glGetUniformLocation"}

DescriptionErrors ==
    {"parse_error", "missing_entry", "duplicate_entry", "no_func", "no_args",
     "no_location", "unsupported_func", "type_error"}

C7_NoUniformsNoDescriptionIO ==
    (nbUniforms = 0 /\ Issued("glGetProgramiv")) =>
        /\ NoneIssued(DescriptionOps \cup SetterOps)
        /\ pc \notin {"uniforms", "resolve", "bind"}
        /\ i = 0
        /\ term # "aborted"
        /\ err \notin DescriptionErrors

C7_Witness ==
    /\ nbUniforms = 0
    /\ Issued("glGetProgramiv")
    /\ jsonKind = "malformed"
    /\ Issued("savePNG")
    /\ exitCode = {EXIT_SUCCESS}

(***************************************************************************)
(* C8: while the resolved description lacks an entry for the (stripped)    *)
(* name of some active uniform, the binder never gets past the first such  *)
(* uniform, no viewport, draw or capture is issued and the run cannot end  *)
(* with code 0; when the run ends at that uniform (and not on a backend    *)
(* error of the call before it), it ends with the missing-entry error and  *)
(* exit code 1.                                                            *)
(***************************************************************************)
MissingEntry == DescriptionResolved /\ \E k \in 1..nbUniforms : ~HasEntry(k)

FirstMissing ==
    CHOOSE k \in 1..nbUniforms : ~HasEntry(k) /\ \A m \in 1..(k - 1) : HasEntry(m)

C8_MissingEntryIsFatal ==
    MissingEntry =>
        /\ pc \in {"bind", "done"}
        /\ i <= FirstMissing
        /\ NoneIssued(RenderOps \cup {"glViewport"})
        /\ (term # "running" => exitCode # {EXIT_SUCCESS})
        /\ (term # "running" /\ i = FirstMissing /\ err # "gl_error" =>
                /\ term = "exited"
                /\ err = "missing_entry"
                /\ exitCode = {EXIT_FAILURE})

C8_Witness ==
    /\ MissingEntry
    /\ jsonKind = "wellformed"
    /\ i = 2
    /\ Issued("glUniform1f")
    /\ err = "missing_entry"
    /\ exitCode = {EXIT_FAILURE}

(***************************************************************************)
(* C9: when the description read holds two entries whose normalised key is *)
(* the name of an active uniform, the binder never gets past that uniform, *)
(* and a run that ends at it ends with the duplicate-entry error.          *)
(***************************************************************************)
C9_DuplicateEntryIsFatal ==
    \A k \in 1..nbUniforms :
        (DescriptionResolved /\ DuplicateEntries(k)) =>
            /\ i <= k
            /\ (term # "running" /\ i = k /\ err # "gl_error" => err = "duplicate_entry")

(***************************************************************************)
(* C10: with at least one active uniform and a description file that       *)
(* exists but does not parse, the run ends through exit(1), before any     *)
(* draw call.                                                              *)
(***************************************************************************)
C10_MalformedDescriptionExits1 ==
    (nbUniforms >= 1 /\ jsonKind = "malformed" /\ Issued("json::parse")) =>
        /\ term = "exited"
        /\ exitCode = {EXIT_FAILURE}
        /\ NoneIssued(RenderOps)

FrameOps == {"glClear", "glDrawArrays", "contextSwap"}

IsSetter(op) == op \in SetterOps

SetterCalls == SelectSeq(calls, IsSetter)

EntryOf(k) == j[StripSubscript(activeUniforms[k])]

\* the run ended in the iteration of uniform i, whose entry is complete
EndedAtCompleteEntry ==
    /\ DescriptionResolved
    /\ term # "running"
    /\ i <= nbUniforms
    /\ HasEntry(i)
    /\ {"func", "args"} \subseteq DOMAIN EntryOf(i)
    /\ err \notin {"gl_error", "no_location"}

(***************************************************************************)
(* C17: while the binder runs nothing has been drawn, and every uniform it *)
(* has gone past got exactly one setter call, the one its entry names; the *)
(* run ends at an active uniform whose entry has its func and args only    *)
(* with the unsupported-function error (exit code 1), for a func outside   *)
(* the setter set: for a func inside the set the setter is called and the  *)
(* binder goes on.  (Backend errors and a location that is not found are   *)
(* left aside.)                                                            *)
(***************************************************************************)
C17_SupportedFuncCallsItsSetter ==
    DescriptionResolved =>
        /\ NoneIssued(RenderOps)
        /\ Len(SetterCalls) = i - 1
        /\ \A k \in 1..(i - 1) : HasEntry(k) /\ SetterCalls[k] = EntryOf(k).func
        /\ EndedAtCompleteEntry =>
              /\ EntryOf(i).func \notin SetterOps
              /\ err = "unsupported_func"
              /\ term = "exited"
              /\ exitCode = {EXIT_FAILURE}

(***************************************************************************)
(* C18: the program binary is written only with a dump path configured,    *)
(* the API gate passed (OpenGL >= 410 or OpenGL ES >= 300) and at least    *)
(* one binary format reported; when the gate fails or no format is         *)
(* reported the dump is skipped and the run goes on to the exit-linking    *)
(* test; without a dump path dumpBin is not invoked.                       *)
(***************************************************************************)
APIGate ==
    \/ (params.API = "API_OPENGL" /\ params.APIVersion >= 410)
    \/ (params.API = "API_OPENGL_ES" /\ params.APIVersion >= 300)

C18_DumpGate ==
    /\ Issued("writeBinary") =>
          /\ params.binOut # ""
          /\ APIGate
          /\ Issued("NUM_PROGRAM_BINARY_FORMATS>0")
          /\ Count("writeBinary") = 1
    /\ params.binOut = "" => NoneIssued(DumpOps)
    /\ Count("dumpBin") <= 1
    /\ Issued("cannotDump") =>
          /\ ~Issued("writeBinary")
          /\ ~APIGate \/ Issued("NUM_PROGRAM_BINARY_FORMATS=0")
    /\ (Issued("dumpBin") /\ ~APIGate) => Issued("cannotDump")
    /\ Issued("cannotDump") => (pc # "dump" /\ err # "malloc")
    /\ (LastCall = "cannotDump" /\ term # "running") =>
          \/ params.exitLinking /\ term = "exited" /\ exitCode = {EXIT_SUCCESS}
          \/ err = "gl_error"

C18_Witness ==
    /\ params.binOut # ""
    /\ ~APIGate
    /\ Issued("cannotDump")
    /\ Issued("savePNG")
    /\ exitCode = {EXIT_SUCCESS}

(***************************************************************************)
(* C19: the pipeline only moves forward: each of fragment compile, vertex  *)
(* compile, link, glUseProgram, uniform query and glViewport happens at    *)
(* most once; the vertex compile follows a successful fragment compile,    *)
(* the link follows a successful vertex compile, every binding operation   *)
(* follows a successful link, and every frame or capture operation follows *)
(* glUseProgram, one setter call per active uniform and glViewport.        *)
(***************************************************************************)
Before(a, n) == \E m \in 1..(n - 1) : calls[m] = a

SettersBefore(n) == Cardinality({m \in 1..(n - 1) : calls[m] \in SetterOps})

C19_PipelineForward ==
    /\ \A op \in {"compileFragment", "compileVertex", "glCreateProgram", "linkProgram",
                  "glGetAttribLocation", "glBufferData", "glUseProgram",
                  "glGetProgramiv", "glViewport"} : Count(op) <= 1
    /\ \A n \in DOMAIN calls :
          /\ calls[n] = "compileVertex" => Before("fragment:COMPILE_STATUS=1", n)
          /\ calls[n] = "linkProgram" => Before("vertex:COMPILE_STATUS=1", n)
          /\ calls[n] \in BindingOps => Before("LINK_STATUS=1", n)
          /\ calls[n] \in SetterOps => Before("glUseProgram", n)
          /\ calls[n] \in RenderOps =>
                /\ Before("glUseProgram", n)
                /\ Before("glViewport", n)
                /\ SettersBefore(n) = nbUniforms

C19_Witness ==
    /\ nbUniforms = MaxUniforms
    /\ Issued("glDrawArrays")
    /\ Issued("savePNG")
    /\ exitCode = {EXIT_SUCCESS}

(***************************************************************************)
(* C20: in non-persist mode the loop ends by itself right after the        *)
(* capture, for every delay >= 0: while the loop is still running, fewer   *)
(* frames than the delay (for delay 0: than one) have been rendered; and a *)
(* run that reaches contextTerminate exits with code 0.                    *)
(***************************************************************************)
C20_NonPersistLoopEndsAfterCapture ==
    /\ (~params.persist /\ pc \in {"loop", "render"}) =>
          numFrames < (IF params.delay >= 1 THEN params.delay ELSE 1)
    /\ (term # "running" /\ Issued("contextTerminate")) =>
          (term = "exited" /\ exitCode = {EXIT_SUCCESS})

(***************************************************************************)
(* A second specification for the claims about --resolution: main() with   *)
(* the flags at their defaults, delay 1, and the width and height of lines *)
(* 106-109 varying.                                                        *)
(***************************************************************************)
ViewportParamSets ==
    [exitCompile : {FALSE}, exitLinking : {FALSE}, persist : {FALSE},
     delay : {1}, binOut : {""},
     width : {64, 256}, height : {32, 256},
     API : {"unset"}, APIVersion : {0}]

InitViewport ==
    /\ pc = "readFile"
    /\ term = "running"
    /\ exitCode = {}
    /\ err = "none"
    /\ params \in ViewportParamSets
    /\ jsonKind \in {"absent", "malformed", "wellformed"}
    /\ calls = <<>>
    /\ nbUniforms = 0
    /\ activeUniforms = <<>>
    /\ jsonContent = <<>>
    /\ j = <<>>
    /\ i = 0
    /\ numFrames = 0
    /\ saved = FALSE
    /\ captureFrames = {}
    /\ unitCall = [fn |-> "none"]

SpecViewport == InitViewport /\ [][Next]_vars

DefaultNames == {<<"injectionSwitch">>, <<"time">>, <<"mouse">>, NameResolution}

(***************************************************************************)
(* C12: the default description is used exactly when the description file  *)
(* is absent (and there is an active uniform): it then holds exactly the   *)
(* four entries injectionSwitch, time, mouse and resolution, the           *)
(* resolution entry's args being the configured width and height; with a   *)
(* description file no default entry is added, so the binder never gets    *)
(* past an active uniform named resolution that the file omits: the run    *)
(* ends there with the missing-entry error.                                *)
(***************************************************************************)
C12_DefaultsIffFileAbsent ==
    /\ Issued("setJSONDefaultEntries") <=> (Issued("isFile") /\ jsonKind = "absent")
    /\ Issued("isFile") => (nbUniforms >= 1 /\ Count("isFile") = 1)
    /\ DescriptionResolved =>
          IF jsonKind = "absent"
          THEN /\ DOMAIN j = DefaultNames
               /\ j[NameResolution] =
                     [func |-> "glUniform2f", args |-> <<params.width, params.height>>]
          ELSE /\ jsonKind = "wellformed"
               /\ j = JsonParse(jsonContent)
               /\ DOMAIN j \cap DefaultNames = {}
               /\ \A k \in 1..(i - 1) : activeUniforms[k] # NameResolution
               /\ (/\ term # "running"
                   /\ i <= nbUniforms
                   /\ activeUniforms[i] = NameResolution
                   /\ err # "gl_error") =>
                      (err = "missing_entry" /\ term = "exited" /\ exitCode = {EXIT_FAILURE})

C12_Witness ==
    /\ jsonKind = "absent"
    /\ params.width = 64
    /\ params.height = 32
    /\ DescriptionResolved
    /\ activeUniforms = <<NameResolution>>
    /\ j[NameResolution].args = <<64, 32>>
    /\ i = 2
    /\ LastCall = "glUniform2f"

(***************************************************************************)
(* The helper functions of main.cpp, run on their own.  A string is a      *)
(* sequence of characters; an int is written in decimal as operator<< and  *)
(* a source file do.                                                       *)
(***************************************************************************)
DigitChars == <<"0", "1", "2", "3", "4", "5", "6", "7", "8", "9">>

RECURSIVE ToDecimal(_)
ToDecimal(n) ==
    IF n < 10 THEN <<DigitChars[n + 1]>>
    ELSE ToDecimal(n \div 10) \o <<DigitChars[(n % 10) + 1]>>

\* std::string::find(pattern) != npos
Contains(str, pattern) ==
    \E k \in 1..(Len(str) - Len(pattern) + 1) :
        SubSeq(str, k, k + Len(pattern) - 1) = pattern

\* std::string::find(c): the first position of c, 0 for npos
FindChar(str, c) ==
    IF \E k \in DOMAIN str : str[k] = c
    THEN CHOOSE k \in DOMAIN str : str[k] = c /\ \A m \in 1..(k - 1) : str[m] # c
    ELSE 0

HashVersion == <<"#", "v", "e", "r", "s", "i", "o", "n">>

\* the tokens of lines 189-203, in the order they are searched
VersionOrder == <<110, 120, 130, 140, 150, 330, 400, 410, 420, 430, 440, 450, 100, 300>>

RECURSIVE FirstToken(_, _)
FirstToken(sub, n) ==
    IF n > Len(VersionOrder) THEN 0
    ELSE IF Contains(sub, ToDecimal(VersionOrder[n])) THEN VersionOrder[n]
    ELSE FirstToken(sub, n + 1)

\* getShaderVersion (lines 178-205): the int returned, or the crash
getShaderVersion(fragContents) ==
    LET pos == FindChar(fragContents, "\n") IN
    IF pos = 0 THEN [ok |-> FALSE, error |-> "no_end_of_line"]
    ELSE LET sub == SubSeq(fragContents, 1, pos - 1) IN
         IF ~Contains(sub, HashVersion) THEN [ok |-> FALSE, error |-> "no_version_directive"]
         ELSE IF FirstToken(sub, 1) = 0 THEN [ok |-> FALSE, error |-> "unsupported_version"]
         ELSE [ok |-> TRUE, value |-> FirstToken(sub, 1)]

(***************************************************************************)
(* Fragment sources getShaderVersion is run on.                            *)
(***************************************************************************)
Versions == {VersionOrder[n] : n \in DOMAIN VersionOrder}

\* "#version V" followed by a profile
Directive(V, profile) == HashVersion \o <<" ">> \o ToDecimal(V) \o profile

Profiles == {<<>>, <<" ", "e", "s">>, <<" ", "c", "o", "r", "e">>}

\* what may follow the directive on its line: nothing, or a comment naming a version
Comments == {<<>>} \cup {<<" ", "/", "/", " ">> \o ToDecimal(W) : W \in Versions}

\* the later lines: none, a line naming another version, an unterminated line
LaterLines == {<<>>, Directive(110, <<>>) \o <<"\n">>, <<"x">>}

\* sources whose first line is a version directive carrying V
DirectiveSources ==
    {[src |-> Directive(V, p) \o c \o <<"\n">> \o l, carried |-> V, expect |-> "version"] :
        V \in Versions, p \in Profiles, c \in Comments, l \in LaterLines}

\* sources getShaderVersion must reject
RejectedSources ==
    {[src |-> Directive(V, <<>>), carried |-> 0, expect |-> "no_end_of_line"] : V \in Versions}
    \cup {[src |-> ToDecimal(V) \o <<"\n">> \o Directive(V, <<>>) \o <<"\n">>,
           carried |-> 0, expect |-> "no_version_directive"] : V \in Versions}
    \cup {[src |-> Directive(V, <<>>) \o <<"\n">>, carried |-> 0, expect |-> "unsupported_version"] :
              V \in {200, 310, 460}}

FragmentSources == DirectiveSources \cup RejectedSources

(***************************************************************************)
(* generateVertexShader (lines 209-235).  The text is kept as the sequence *)
(* of the pieces written to the stream; std::endl writes a newline.        *)
(***************************************************************************)
vertGenericContents ==
    << "vec2 _GLF_vertexPosition;\n",
       "void main(void) {\n",
       "    gl_Position = vec4(_GLF_vertexPosition, 0.0, 1.0);\n",
       "}\n" >>

\* variant: every ES version gets the suffix and the "in" qualifier
generateVertexShader_AnyES(p, file) ==
    IF p.vertFilename # ""
    THEN IF file.exists THEN [ok |-> TRUE, out |-> file.contents]
         ELSE [ok |-> FALSE, error |-> "file_not_found"]
    ELSE [ok |-> TRUE,
          out |-> <<"#version ">> \o ToDecimal(p.shaderVersion)
                  \o (IF p.shaderVersion \in {100, 300}
                      THEN <<" es", "\n", "in ">>
                      ELSE <<"\n", "attribute ">>)
                  \o vertGenericContents]

generateVertexShader(p, file) ==
    IF p.vertFilename # ""
    THEN IF file.exists THEN [ok |-> TRUE, out |-> file.contents]
         ELSE [ok |-> FALSE, error |-> "file_not_found"]
    ELSE [ok |-> TRUE,
          out |-> <<"#version ">> \o ToDecimal(p.shaderVersion)
                  \o (IF p.shaderVersion = 300
                      THEN <<" es", "\n", "in ">>
                      ELSE <<"\n", "attribute ">>)
                  \o vertGenericContents]

\* the vertex shader files of --vertex: missing, empty, or some text
VertexFiles ==
    {[exists |-> FALSE, contents |-> <<>>],
     [exists |-> TRUE, contents |-> <<>>],
     [exists |-> TRUE, contents |-> <<"#version 100\n", "void main(void) { }\n">>]}

VertexInputs ==
    [p : [vertFilename : {"", "custom.vert"}, shaderVersion : Versions],
     file : VertexFiles]

(***************************************************************************)
(* savePNG, lines 609-617: the readback and the buffer given to the        *)
(* encoder.  A buffer is a function from 0..(size - 1) to bytes.           *)
(***************************************************************************)
CHANNELS == 4

MaxW == 2
MaxH == 3
MaxSeed == 3

\* variant: the rows are copied in the order they were read
FlipRows_NoReverse(data, uwidth, uheight) ==
    [k \in 0..(uwidth * uheight * CHANNELS - 1) |->
        LET h == k \div (uwidth * CHANNELS)
            col == k % (uwidth * CHANNELS)
        IN  data[h * uwidth * CHANNELS + col]]

\* lines 613-617: flipped_data[h * uwidth * CHANNELS + col], for every h and col
FlipRows(data, uwidth, uheight) ==
    [k \in 0..(uwidth * uheight * CHANNELS - 1) |->
        LET h == k \div (uwidth * CHANNELS)
            col == k % (uwidth * CHANNELS)
        IN  data[(uheight - h - 1) * uwidth * CHANNELS + col]]

\* what glReadPixels may hand back: uwidth * uheight * CHANNELS bytes
Readback(uwidth, uheight, seed, step) ==
    [k \in 0..(uwidth * uheight * CHANNELS - 1) |-> (seed + step * k) % 256]

FlipInputs ==
    {[uwidth |-> w, uheight |-> h, data |-> Readback(w, h, seed, step)] :
        w \in 1..MaxW, h \in 1..MaxH, seed \in 0..MaxSeed, step \in {1, 3}}

(***************************************************************************)
(* getArray and GLUNIFORM_ARRAYINIT (lines 271-285).  A JSON number is     *)
(* kept as twice its value (half = 3 is 1.5), so that the values with a    *)
(* fractional part that the model uses are integers; a GLfloat or GLint of *)
(* the buffer is kept the same way.                                        *)
(***************************************************************************)
MaxArgs == 2

JsonNumbers == [type : {"number"}, half : {-3, -2, 0, 1, 3, 4}]

\* the elements an args list may hold: numbers, or something that is no number
ArgValues == JsonNumbers \cup {[type |-> "string", half |-> 0]}

ArgLists == SeqsUpTo(ArgValues, MaxArgs)

ElementType(funcname) ==
    IF funcname \in {"glUniform1fv", "glUniform2fv", "glUniform3fv", "glUniform4fv"}
    THEN "GLfloat" ELSE "GLint"

\* a[i] = j[i]: the implicit conversion of a JSON number to T (a static_cast)
ConvertNumber(T, half) ==
    IF T = "GLfloat" THEN half
    ELSE IF half >= 0 THEN 2 * (half \div 2) ELSE -(2 * ((-half) \div 2))

\* variant: the elements are stored from the end of the buffer
getArray_Reversed(T, jsonarray) ==
    IF \A k \in DOMAIN jsonarray : jsonarray[k].type = "number"
    THEN [ok |-> TRUE,
          a |-> [k \in DOMAIN jsonarray |->
                    ConvertNumber(T, jsonarray[Len(jsonarray) + 1 - k].half)]]
    ELSE [ok |-> FALSE, a |-> <<>>]

\* getArray<T> (lines 271-278); the conversion of an element that is no
\* number throws type_error
getArray(T, jsonarray) ==
    IF \A k \in DOMAIN jsonarray : jsonarray[k].type = "number"
    THEN [ok |-> TRUE,
          a |-> [k \in DOMAIN jsonarray |-> ConvertNumber(T, jsonarray[k].half)]]
    ELSE [ok |-> FALSE, a |-> <<>>]

\* GLUNIFORM_ARRAYINIT (lines 282-285): the heap operations and the call
GLUNIFORM_ARRAYINIT(funcname, jsonarray) ==
    LET r == getArray(ElementType(funcname), jsonarray) IN
    IF r.ok
    THEN [ok |-> TRUE,
          events |-> << [op |-> "new[]", count |-> Len(jsonarray), value |-> <<>>],
                        [op |-> funcname, count |-> Len(jsonarray), value |-> r.a],
                        [op |-> "delete[]", count |-> 0, value |-> <<>>] >>]
    ELSE [ok |-> FALSE,
          events |-> << [op |-> "new[]", count |-> Len(jsonarray), value |-> <<>>] >>]

ArrayInitInputs == [funcname : ArraySetters, args : ArgLists]

(***************************************************************************)
(* The specification of the helpers: one call of one helper on one input.  *)
(***************************************************************************)
HelperCalls ==
    [fn : {"getShaderVersion"}, arg : FragmentSources, done : {FALSE}, res : {<<>>}]
    \cup [fn : {"generateVertexShader"}, arg : VertexInputs, done : {FALSE}, res : {<<>>}]
    \cup [fn : {"savePNG"}, arg : FlipInputs, done : {FALSE}, res : {<<>>}]
    \cup [fn : {"GLUNIFORM_ARRAYINIT"}, arg : ArrayInitInputs, done : {FALSE}, res : {<<>>}]

InitHelpers ==
    /\ pc = "helper"
    /\ term = "running"
    /\ exitCode = {}
    /\ err = "none"
    /\ params = [exitCompile |-> FALSE, exitLinking |-> FALSE, persist |-> FALSE,
                 delay |-> 5, binOut |-> "", width |-> 256, height |-> 256,
                 API |-> "unset", APIVersion |-> 0]
    /\ jsonKind = "absent"
    /\ calls = <<>>
    /\ nbUniforms = 0
    /\ activeUniforms = <<>>
    /\ jsonContent = <<>>
    /\ j = <<>>
    /\ i = 0
    /\ numFrames = 0
    /\ saved = FALSE
    /\ captureFrames = {}
    /\ unitCall \in HelperCalls

helperFrame == <<params, jsonKind, calls, binderLocals, loopLocals>>

\* the helper returns r, or crashes with r.error
Return(r) ==
    /\ unitCall' = [unitCall EXCEPT !.done = TRUE, !.res = r]
    /\ IF r.ok THEN goto("returned") ELSE crash(r.error)
    /\ UNCHANGED helperFrame

CallGetShaderVersion ==
    /\ pc = "helper"
    /\ unitCall.fn = "getShaderVersion"
    /\ Return(getShaderVersion(unitCall.arg.src))

CallGenerateVertexShader ==
    /\ pc = "helper"
    /\ unitCall.fn = "generateVertexShader"
    /\ Return(generateVertexShader(unitCall.arg.p, unitCall.arg.file))

CallFlip ==
    /\ pc = "helper"
    /\ unitCall.fn = "savePNG"
    /\ Return([ok |-> TRUE,
               out |-> FlipRows(unitCall.arg.data, unitCall.arg.uwidth, unitCall.arg.uheight)])

\* lines 390-408: one array setter of the dispatch, on its own
CallArrayInit ==
    /\ pc = "helper"
    /\ unitCall.fn = "GLUNIFORM_ARRAYINIT"
    /\ LET r == GLUNIFORM_ARRAYINIT(unitCall.arg.funcname, unitCall.arg.args) IN
          /\ unitCall' = [unitCall EXCEPT !.done = TRUE, !.res = r]
          /\ IF r.ok THEN goto("returned") ELSE uncaught_exception("type_error")
    /\ UNCHANGED helperFrame

NextHelpers ==
    \/ CallGetShaderVersion
    \/ CallGenerateVertexShader
    \/ CallFlip
    \/ CallArrayInit

SpecHelpers == InitHelpers /\ [][NextHelpers]_vars

Returned(fn) == unitCall.fn = fn /\ unitCall.done

Crashed(e) == term = "exited" /\ exitCode = {EXIT_FAILURE} /\ err = e

(***************************************************************************)
(* C14: for a source whose first line is a version directive carrying a    *)
(* supported V, getShaderVersion returns exactly V, whatever the later     *)
(* lines are; a source with no newline, with no #version in its first      *)
(* line, or with no supported token in it, is a fatal error (exit code 1). *)
(***************************************************************************)
C14_ReturnsCarriedVersion ==
    Returned("getShaderVersion") =>
        IF unitCall.arg.expect = "version"
        THEN /\ unitCall.res.ok
             /\ unitCall.res.value = unitCall.arg.carried
             /\ term = "running"
        ELSE /\ ~unitCall.res.ok
             /\ Crashed(unitCall.arg.expect)

(***************************************************************************)
(* C15: without a vertex shader path the synthesized shader starts with    *)
(* "#version <detected version>"; for version 300 it carries the " es"     *)
(* suffix and declares _GLF_vertexPosition with "in", for every other      *)
(* supported version it carries no suffix and uses "attribute".  With a    *)
(* vertex shader path the file's contents are used verbatim and nothing is *)
(* synthesized.                                                            *)
(***************************************************************************)
\* the pieces of text after the "#version <V>" prefix
AfterVersion(out, V) == SubSeq(out, 2 + Len(ToDecimal(V)), Len(out))

Declaration == <<"vec2 _GLF_vertexPosition;\n">>

C15_VertexShaderSynthesis ==
    Returned("generateVertexShader") =>
        LET p == unitCall.arg.p
            file == unitCall.arg.file
            res == unitCall.res
        IN  IF p.vertFilename = ""
            THEN /\ res.ok
                 /\ term = "running"
                 /\ SubSeq(res.out, 1, 1 + Len(ToDecimal(p.shaderVersion))) =
                        <<"#version ">> \o ToDecimal(p.shaderVersion)
                 /\ ToDecimal(p.shaderVersion) =
                        <<DigitChars[(p.shaderVersion \div 100) + 1],
                          DigitChars[((p.shaderVersion \div 10) % 10) + 1],
                          DigitChars[(p.shaderVersion % 10) + 1]>>
                 /\ IF p.shaderVersion = 300
                    THEN SubSeq(AfterVersion(res.out, p.shaderVersion), 1, 4) =
                             <<" es", "\n", "in ">> \o Declaration
                    ELSE SubSeq(AfterVersion(res.out, p.shaderVersion), 1, 3) =
                             <<"\n", "attribute ">> \o Declaration
            ELSE IF file.exists
                 THEN res.ok /\ res.out = file.contents /\ term = "running"
                 ELSE ~res.ok /\ Crashed("file_not_found")

C15_Witness ==
    /\ Returned("generateVertexShader")
    /\ unitCall.arg.p = [vertFilename |-> "", shaderVersion |-> 300]
    /\ unitCall.res.ok
    /\ unitCall.res.out[5] = " es"

(***************************************************************************)
(* C16: for every width w, height h and readback of w*h*4 bytes, row i of  *)
(* the buffer given to the encoder is row h-1-i of the readback, byte for  *)
(* byte over the 4*w bytes of the row, for every i in 0..h-1; flipping     *)
(* twice gives back the readback, and the multiset of rows is preserved.   *)
(***************************************************************************)
Row(buf, r, w) == [c \in 0..(4 * w - 1) |-> buf[r * 4 * w + c]]

RowCount(buf, row, w, h) == Cardinality({r \in 0..(h - 1) : Row(buf, r, w) = row})

C16_RowsReversed ==
    Returned("savePNG") =>
        LET w == unitCall.arg.uwidth
            h == unitCall.arg.uheight
            data == unitCall.arg.data
            out == unitCall.res.out
        IN  /\ DOMAIN out = 0..(w * h * 4 - 1)
            /\ \A r \in 0..(h - 1) : Row(out, r, w) = Row(data, h - 1 - r, w)
            /\ FlipRows(out, w, h) = data
            /\ \A r \in 0..(h - 1) :
                  RowCount(out, Row(data, r, w), w, h) = RowCount(data, Row(data, r, w), w, h)

C16_Witness ==
    /\ Returned("savePNG")
    /\ unitCall.arg.uwidth = MaxW
    /\ unitCall.arg.uheight = MaxH
    /\ unitCall.res.out # unitCall.arg.data
    /\ unitCall.res.out[0] = unitCall.arg.data[(MaxH - 1) * MaxW * CHANNELS]

(***************************************************************************)
(* C21: a run without --exit-compile and --exit-linking that exits with    *)
(* code 0 has captured an image: no run enters the render loop, leaves it  *)
(* and exits with code 0 while savePNG was never performed.                *)
(***************************************************************************)
C21_ExitZeroImpliesCapture ==
    (/\ ~params.exitCompile
     /\ ~params.exitLinking
     /\ term = "exited"
     /\ exitCode = {EXIT_SUCCESS}) => Issued("savePNG")

(***************************************************************************)
(* C23: when the linked program has no _GLF_vertexPosition attribute the   *)
(* run ends with exit code 1 right after the lookup, before any vertex     *)
(* data upload, uniform binding or draw call; the lookup comes after the   *)
(* exit-after-linking test, so with --exit-linking it is never made and    *)
(* the run that reaches the test exits with code 0.                        *)
(***************************************************************************)
C23_MissingVertexPositionIsFatal ==
    /\ Issued("_GLF_vertexPosition=-1") =>
          /\ term = "exited"
          /\ exitCode = {EXIT_FAILURE}
          /\ err = "no_vertex_position"
          /\ LastCall = "_GLF_vertexPosition=-1"
          /\ Count("glGetAttribLocation") = 1
          /\ NoneIssued((BindingOps \ {"glGetAttribLocation"}) \cup RenderOps)
          /\ Issued("LINK_STATUS=1")
    /\ err = "no_vertex_position" => Issued("_GLF_vertexPosition=-1")
    /\ Issued("glGetAttribLocation") => ~params.exitLinking
    /\ (params.exitLinking /\ Issued("LINK_STATUS=1") /\ term # "running"
            /\ err \notin {"gl_error", "malloc"}) =>
          (term = "exited" /\ exitCode = {EXIT_SUCCESS})

C23_Witness ==
    /\ Issued("_GLF_vertexPosition=-1")
    /\ ~params.exitLinking
    /\ params.binOut # ""
    /\ exitCode = {EXIT_FAILURE}

(***************************************************************************)
(* C22: for every array setter and every list of numeric arguments, one    *)
(* call of that setter is made; the element count passed is the length of  *)
(* the list and the buffer passed holds the arguments in their order,      *)
(* converted to the setter's element type (unchanged for the fv setters,   *)
(* the integer part for the iv setters); the buffer is allocated before    *)
(* and released after that call.  When an argument is no number, no setter *)
(* call is made at all.                                                    *)
(***************************************************************************)
Abs(n) == IF n >= 0 THEN n ELSE -n

\* v is the integer part of the number x (both kept as twice their value)
IntegerPartOf(v, x) == v % 2 = 0 /\ Abs(v) <= Abs(x) /\ Abs(x - v) < 2 /\ v * x >= 0

C22_ArraySetterMarshalling ==
    Returned("GLUNIFORM_ARRAYINIT") =>
        LET funcname == unitCall.arg.funcname
            args == unitCall.arg.args
            ev == unitCall.res.events
        IN  IF \A k \in DOMAIN args : args[k].type = "number"
            THEN /\ term = "running"
                 /\ Len(ev) = 3
                 /\ ev[1].op = "new[]" /\ ev[1].count = Len(args)
                 /\ ev[2].op = funcname
                 /\ ev[2].count = Len(args)
                 /\ Len(ev[2].value) = Len(args)
                 /\ \A k \in DOMAIN args :
                       IF funcname \in {"glUniform1iv", "glUniform2iv", "glUniform3iv", "glUniform4iv"}
                       THEN IntegerPartOf(ev[2].value[k], args[k].half)
                       ELSE ev[2].value[k] = args[k].half
                 /\ ev[3].op = "delete[]"
            ELSE /\ \A n \in DOMAIN ev : ev[n].op \notin ArraySetters
                 /\ term = "aborted"
                 /\ err = "type_error"

C22_Witness ==
    /\ Returned("GLUNIFORM_ARRAYINIT")
    /\ unitCall.arg.funcname = "glUniform2iv"
    /\ Len(unitCall.arg.args) = MaxArgs
    /\ unitCall.arg.args[1] = [type |-> "number", half |-> -3]
    /\ unitCall.arg.args[MaxArgs] = [type |-> "number", half |-> 1]
    /\ unitCall.res.ok
    /\ unitCall.res.events[2].count = MaxArgs
    /\ unitCall.res.events[2].value[1] = -2
    /\ unitCall.res.events[2].value[MaxArgs] = 0

====
